---------------------------- MODULE Spec2Model ----------------------------
(***************************************************************************)
(* A model of net.py: the convolutional sequence-to-sequence network       *)
(* (ConvGLU, ConvGLUEncoder, ConvGLUDecoder, Seq2seq).                     *)
(*                                                                         *)
(*   SpecTranslate  the greedy decode loop Seq2seq.translate, the forward  *)
(*                  call reduced to what the loop observes of it: whether  *)
(*                  it raises, and the argmax it yields (any token).       *)
(*   SpecDeterminism  two successive translate calls on a model of         *)
(*                  n_layers = 0 (encoder and decoder loops run no layer), *)
(*                  whose logits are computed from integer parameters.     *)
(*   SpecForward    one call Seq2seq.__call__, statement by statement, as  *)
(*                  a flow of data: every tensor cell holds the inputs and *)
(*                  parameters its value is computed from.                 *)
(*   SpecDecoder    ConvGLUDecoder constructed with any width and called   *)
(*                  directly, in the same terms.                           *)
(*   SpecAttend     one call ConvGLUDecoder.attend on numbers, with -inf   *)
(*                  and NaN.                                               *)
(***************************************************************************)
EXTENDS Integers, Sequences, FiniteSets, TLC

\* ------------------------------------------------------------------ bounds
MaxBatch == 2      \* batch elements of a translate call
MaxSteps == 2      \* largest max_length argument of translate
MaxXLen == 2       \* longest source block of a translate call
MaxModelLen == 2   \* largest self.max_length of a model (position table size)
NUnits == 2        \* n_units of the modelled networks
MaxYLen == 2       \* longest target block of a forward call
MaxLayers == 2     \* largest n_layers
MaxWidth == 6      \* largest width of a decoder constructed directly

\* --------------------------------------------------------- program constants
EOS == 0           \* the end marker, also the start token (y == 0)
PLACEHOLDER == 1   \* np.array([1], 'i')
EncWidth == 5      \* ConvGLUEncoder(n_layers, n_units, 5, dropout)
DecWidth == 5      \* ConvGLUDecoder(n_layers, n_units, 5, dropout)
PadLen == 2        \* pad = zeros((x.shape[0], x.shape[1], 2, 1))

VARIABLES
    xp,               \* the array module self.xp: "numpy" or "cupy"
    self_max_length,  \* Seq2seq.max_length
    batch, x_length,  \* x_block.shape
    max_length,       \* translate's max_length argument
    y_block,          \* [1..batch -> Seq(token)]: the growing target prefix
    eos_flags,        \* [1..batch -> Nat]
    result,           \* the list of ys appended so far
    i,                \* forward calls completed
    pc,               \* "loop" | "post" | "done" | "error"
    outs,             \* the returned list, once pc = "done"
    train,            \* chainer.config.train, which translate never sets
    params,           \* the model parameters (a record of tables)
    run,              \* which of two successive translate calls is running
    first_outs,       \* what the first call returned
    \* --- one forward call Seq2seq.__call__ / ConvGLUDecoder.__call__
    fpc,              \* the statement the call has reached
    n_layers, width,  \* the layer count, the decoder's width parameter
    standalone,       \* the decoder is called directly, not by Seq2seq
    get_prediction,
    x_blk, y_in, y_out,   \* one row of x_block, y_in_block, y_out_block
    position_block,   \* one row of position_block, [0..max_len-1 -> index]
    ex_block, ey_block,
    z_block, enc_layer,   \* the encoder's x, and the layers applied to it
    ze_block, z_mask,
    x_dec, base_x, dec_layer,   \* the decoder's x, base_x, layers applied
    pad_len, conv_len,    \* timesteps of pad, length of the last conv output
    preatt, query, c_att, \* the decoder's preatt, query and c of the layer
    pred, loss,       \* the logits per position, the loss term per position
    \* --- one call of ConvGLUDecoder.attend on numbers
    at_pc,            \* "call" | "done"
    at_query, at_key, at_value, at_mask,   \* its arguments, one batch element
    at_a, at_c        \* the weights a after the re-mask, the returned c

cfgVars == <<xp, self_max_length, batch, x_length, max_length>>
loopVars == <<y_block, eos_flags, result, i, pc, outs>>
detVars == <<train, params, run, first_outs>>
fwInputs == <<n_layers, width, standalone, get_prediction, x_blk, y_in, y_out>>
fwEmbedVars == <<position_block, ex_block, ey_block>>
fwEncVars == <<z_block, enc_layer, ze_block, z_mask>>
fwDecVars == <<x_dec, base_x, dec_layer, pad_len, conv_len, preatt, query, c_att>>
fwOutVars == <<pred, loss>>
fwVars == <<fpc, fwInputs, fwEmbedVars, fwEncVars, fwDecVars, fwOutVars>>

atVars == <<at_pc, at_query, at_key, at_value, at_mask, at_a, at_c>>

vars == <<cfgVars, loopVars, detVars, fwVars, atVars>>

\* Target token ids by the role they play in translate: the end marker, the
\* id that doubles as the placeholder, and one other id.
Tokens == {EOS, PLACEHOLDER, PLACEHOLDER + 1}
Backends == {"numpy", "cupy"}

Max(a, b) == IF a >= b THEN a ELSE b

\* ------------------------------------------------- Seq2seq.__call__: positions

\* position_block[:, self.max_length:] = self.max_length - 1 writes into the
\* result of xp.broadcast_to.  numpy's broadcast_to returns a read-only view,
\* so the assignment raises ValueError; cupy's view is writable.
PositionWriteRaises(xpm, max_len, ml) == xpm = "numpy" /\ max_len > ml

\* The position indices of one row after the clamp (when it does not raise).
PositionBlock(max_len, ml) ==
    [p \in 0..(max_len - 1) |->
        IF max_len > ml /\ p >= ml THEN ml - 1 ELSE p]

\* What a specification that runs no forward call leaves its variables at.
IdleForward ==
    /\ fpc = "idle"
    /\ n_layers = 0 /\ width = 5 /\ standalone = FALSE
    /\ get_prediction = TRUE
    /\ x_blk = <<>> /\ y_in = <<>> /\ y_out = <<>>
    /\ position_block = <<>> /\ ex_block = <<>> /\ ey_block = <<>>
    /\ z_block = <<>> /\ enc_layer = 0 /\ ze_block = <<>> /\ z_mask = <<>>
    /\ x_dec = <<>> /\ base_x = <<>> /\ dec_layer = 0
    /\ pad_len = 0 /\ conv_len = 0
    /\ preatt = <<>> /\ query = <<>> /\ c_att = <<>>
    /\ pred = <<>> /\ loss = <<>>

IdleAttend ==
    /\ at_pc = "idle"
    /\ at_query = <<>> /\ at_key = <<>> /\ at_value = <<>> /\ at_mask = <<>>
    /\ at_a = <<>> /\ at_c = <<>>

\* ------------------------------------------------------- Seq2seq.translate

\* The forward call of step i, on x_block and the current y_block.
ForwardRaises ==
    PositionWriteRaises(xp, Max(x_length, Len(y_block[1])), self_max_length)

\* self.xp.all(eos_flags)
AllFlags(flags) == \A b \in DOMAIN flags : flags[b] # 0

InitTranslate ==
    /\ xp \in Backends
    /\ self_max_length \in 1..MaxModelLen
    /\ batch \in 1..MaxBatch
    /\ x_length \in 1..MaxXLen
    /\ max_length \in 1..MaxSteps
    /\ y_block = [b \in 1..batch |-> <<EOS>>]
    /\ eos_flags = [b \in 1..batch |-> 0]
    /\ result = <<>>
    /\ i = 0
    /\ pc = "loop"
    /\ outs = <<>>
    /\ train = TRUE
    /\ params = <<>>
    /\ run = 1
    /\ first_outs = <<>>
    /\ IdleForward
    /\ IdleAttend

\* One iteration of the for loop whose forward call returns; ys is the argmax
\* of the last-position logits.
LoopBody(ys) ==
    /\ result' = Append(result, ys)
    /\ y_block' = [b \in 1..batch |-> Append(y_block[b], ys[b])]
    /\ eos_flags' = [b \in 1..batch |->
                        eos_flags[b] + (IF ys[b] = EOS THEN 1 ELSE 0)]
    /\ i' = i + 1
    /\ pc' = IF AllFlags(eos_flags') \/ i + 1 = max_length
             THEN "post" ELSE "loop"
    /\ UNCHANGED <<cfgVars, outs>>

DecodeStep ==
    /\ pc = "loop"
    /\ i < max_length
    /\ ~ForwardRaises
    /\ \E ys \in [1..batch -> Tokens] : LoopBody(ys)
    /\ UNCHANGED <<detVars, fwVars, atVars>>

\* The forward call raises: the exception leaves translate.
DecodeStepRaises ==
    /\ pc = "loop"
    /\ i < max_length
    /\ ForwardRaises
    /\ pc' = "error"
    /\ UNCHANGED <<cfgVars, detVars, fwVars, atVars, y_block, eos_flags,
                   result, i, outs>>

\* result = self.xp.stack(result).T : row b of the transposed array
Row(res, b) == [k \in 1..Len(res) |-> res[k][b]]

\* np.argwhere(y == 0): the indices (1-based here) holding the end marker
ArgWhereEOS(y) == {k \in 1..Len(y) : y[k] = EOS}

SetMin(S) == CHOOSE m \in S : \A n \in S : m <= n

\* The variant of Truncate that cuts after the first end marker, not before.
TruncateKeepsEOS(y) ==
    IF ArgWhereEOS(y) # {} THEN SubSeq(y, 1, SetMin(ArgWhereEOS(y))) ELSE y

\* if len(inds) > 0: y = y[:inds[0, 0]]
Truncate(y) ==
    IF ArgWhereEOS(y) # {} THEN SubSeq(y, 1, SetMin(ArgWhereEOS(y)) - 1) ELSE y

\* if len(y) == 0: y = np.array([1], 'i')
Substitute(y) == IF Len(y) = 0 THEN <<PLACEHOLDER>> ELSE y

RemoveEOS(y) == Substitute(Truncate(y))

PostProcess ==
    /\ pc = "post"
    /\ outs' = [b \in 1..batch |-> RemoveEOS(Row(result, b))]
    /\ pc' = "done"
    /\ UNCHANGED <<cfgVars, detVars, fwVars, atVars, y_block, eos_flags,
                   result, i>>

NextTranslate == DecodeStep \/ DecodeStepRaises \/ PostProcess

SpecTranslate == InitTranslate /\ [][NextTranslate]_vars

\* ------------------------------------------------------ claims on translate

LoopOver == pc \in {"post", "done", "error"}

\* C1: translate makes at most max_length forward calls, does not fail, and
\* returns one output per batch element, each of length 1..max_length.
C1_TerminatesWithOutputs ==
    /\ i <= max_length
    /\ pc # "error"
    /\ pc = "done" =>
          /\ DOMAIN outs = 1..batch
          /\ \A b \in 1..batch :
                Len(outs[b]) >= 1 /\ Len(outs[b]) <= max_length

\* What holds of the loop whenever no forward call raises.
C1_OutputsUnlessRaised ==
    /\ i <= max_length
    /\ pc = "done" =>
          /\ DOMAIN outs = 1..batch
          /\ \A b \in 1..batch :
                Len(outs[b]) >= 1 /\ Len(outs[b]) <= max_length

\* The number of tokens element b selected before its first end marker.
LeadingTokens(y, n) ==
    /\ n \in 0..Len(y)
    /\ \A k \in 1..n : y[k] # EOS
    /\ n < Len(y) => y[n + 1] = EOS

\* C2: each output is the element's selected tokens up to and excluding its
\* first end marker (all of them when it never selected one), or the single
\* placeholder [1] when that prefix is empty; so no output holds token 0 and
\* nothing selected after the first end marker is returned.
C2_OutputIsPrefixBeforeEOS ==
    pc = "done" =>
      \A b \in 1..batch :
        \E n \in 0..Len(result) :
          /\ LeadingTokens(Row(result, b), n)
          /\ n > 0 => /\ Len(outs[b]) = n
                      /\ \A k \in 1..n : outs[b][k] = result[k][b]
          /\ n = 0 => outs[b] = <<PLACEHOLDER>>
          /\ \A k \in 1..Len(outs[b]) : outs[b][k] # EOS

\* C2's case: one element selected the end marker first and another token
\* after it (placeholder returned), another a token and then the end marker.
C2_Witness ==
    /\ pc = "done"
    /\ \E b \in 1..batch :
          /\ Row(result, b) = <<EOS, PLACEHOLDER + 1>>
          /\ outs[b] = <<PLACEHOLDER>>
    /\ \E b \in 1..batch :
          /\ Row(result, b) = <<PLACEHOLDER + 1, EOS>>
          /\ outs[b] = <<PLACEHOLDER + 1>>

\* Every element has selected the end marker at step k or earlier.
AllEosBy(k) == \A b \in 1..batch : \E j \in 1..k : result[j][b] = EOS

\* C3: the loop stops right after the first step by which every element has
\* selected the end marker, with no forward call after it; otherwise it makes
\* exactly max_length steps; a flag is set exactly from the element's first
\* end marker on.
C3_StopsAtAllEOS ==
    /\ \A k \in 1..(Len(result) - 1) : ~AllEosBy(k)
    /\ pc = "loop" => ~AllEosBy(Len(result))
    /\ LoopOver => (AllEosBy(Len(result)) \/ Len(result) = max_length)
    /\ \A b \in 1..batch :
          eos_flags[b] # 0 <=> \E j \in 1..Len(result) : result[j][b] = EOS


\* Where no forward call raises, the loop stops as C3 says.
C3_StopsAtAllEOSUnlessRaised == pc # "error" => C3_StopsAtAllEOS

\* ------------------------------------------------------------ the forward path
\* with n_layers = 0: h_block is ey_block, the logits are W(dropout(h_block)).

Units == 0..(NUnits - 1)

RECURSIVE SumTo(_, _)
SumTo(f, n) == IF n < 0 THEN 0 ELSE f[n] + SumTo(f, n - 1)

\* sentence_block_embed: embed the flattened ids, giving rows (b * length + l)
\* of n_units values, and reshape them to (batch, units, length) without a
\* transpose.  ids is one row of the block (1-based); the result is indexed
\* [unit][position], element k = u * length + l of the row-major data.
SentenceBlockEmbed(table, ids) ==
    LET length == Len(ids) IN
    [u \in Units |-> [l \in 1..length |->
        LET k == u * length + (l - 1)
        IN  table[ids[(k \div NUnits) + 1]][k % NUnits]]]

\* position_block[:, :length] as a 1-based row
PositionRow(max_len, ml, length) ==
    [l \in 1..length |-> PositionBlock(max_len, ml)[l - 1]]

\* F.dropout(x, ratio=0.2) on one value, times 4 to stay in the integers:
\* under chainer.config.train a kept value is scaled by 1 / (1 - 0.2) = 5/4
\* and a dropped one is 0; otherwise the value passes unchanged.
Dropout4(x, keep, tr) == IF tr THEN (IF keep THEN 5 * x ELSE 0) ELSE 4 * x

\* log_prob_block[b, -1, :] (times 4) of the forward call on y, the dropout
\* mask of that row being keep.
TailLogits4(prm, y, max_len, ml, keep, tr) ==
    LET length == Len(y)
        ey == SentenceBlockEmbed(prm.embed_y, y)
        py == SentenceBlockEmbed(prm.embed_position_y,
                                 PositionRow(max_len, ml, length))
        h == [u \in Units |-> ey[u][length] + py[u][length]]
    IN  [v \in Tokens |->
            SumTo([u \in Units |-> prm.W[v][u] * Dropout4(h[u], keep[u], tr)],
                  NUnits - 1)
            + 4 * prm.b[v]]

\* xp.argmax: the first index holding the maximum
ArgMax(logits) ==
    CHOOSE v \in DOMAIN logits :
        \A w \in DOMAIN logits :
            logits[v] >= logits[w] /\ (logits[w] = logits[v] => v <= w)

\* Parameters: the embedding tables are fixed, W ranges over sign matrices.
ParamChoices ==
    {[embed_y |-> [v \in Tokens |-> [u \in Units |-> v + u]],
      embed_position_y |-> [p \in 0..(MaxModelLen - 1) |-> [u \in Units |-> p]],
      W |-> w,
      b |-> [v \in Tokens |-> 0]] : w \in [Tokens -> [Units -> {-1, 1}]]}

InitDeterminism ==
    /\ xp \in Backends
    /\ self_max_length \in 1..MaxModelLen
    /\ batch = 1
    /\ x_length = 1
    /\ max_length \in 1..MaxSteps
    /\ y_block = [b \in 1..batch |-> <<EOS>>]
    /\ eos_flags = [b \in 1..batch |-> 0]
    /\ result = <<>>
    /\ i = 0
    /\ pc = "loop"
    /\ outs = <<>>
    /\ train \in BOOLEAN
    /\ params \in ParamChoices
    /\ run = 1
    /\ first_outs = <<>>
    /\ IdleForward
    /\ IdleAttend

\* A loop iteration whose forward call computes the logits; the dropout masks
\* are drawn afresh by each call.
NetDecodeStep ==
    /\ pc = "loop"
    /\ i < max_length
    /\ ~ForwardRaises
    /\ \E keep \in [1..batch -> [Units -> BOOLEAN]] :
          LoopBody([b \in 1..batch |->
              ArgMax(TailLogits4(params, y_block[b],
                                 Max(x_length, Len(y_block[b])),
                                 self_max_length, keep[b], train))])
    /\ UNCHANGED <<detVars, fwVars, atVars>>

\* The caller calls translate again, on the same model and the same x_block.
SecondCall ==
    /\ pc = "done"
    /\ run = 1
    /\ first_outs' = outs
    /\ run' = 2
    /\ y_block' = [b \in 1..batch |-> <<EOS>>]
    /\ eos_flags' = [b \in 1..batch |-> 0]
    /\ result' = <<>>
    /\ i' = 0
    /\ pc' = "loop"
    /\ outs' = <<>>
    /\ UNCHANGED <<cfgVars, train, params, fwVars, atVars>>

NextDeterminism ==
    NetDecodeStep \/ DecodeStepRaises \/ PostProcess \/ SecondCall

SpecDeterminism == InitDeterminism /\ [][NextDeterminism]_vars

\* C4: two translate calls with the same parameters and the same input return
\* the same output sequences.
C4_SameOutputs == (run = 2 /\ pc = "done") => outs = first_outs

\* With dropout off (chainer.config.train = False, set by the caller) the two
\* calls agree.
C4_SameOutputsWhenNotTraining ==
    (~train /\ run = 2 /\ pc = "done") => outs = first_outs


\* ---------------------------------------------------------------------------
\* The forward path as a flow of data.  A tensor of one batch element is a
\* function [unit -> sequence over the positions]; each cell holds the set of
\* inputs and parameters its value is computed from:
\*   <<"x", p>>   the source token at position p of x_block
\*   <<"px", p>>  the position embedding looked up for source position p
\*   <<"y", p>>, <<"py", p>>   the same for y_in_block
\*   <<"enc", l>>, <<"dec", l>>, <<"preatt", l>>   the parameters of layer l
\* A cell computed as a constant (a zero of padding, a weight the mask sets
\* to zero) holds the empty set.  Dropout rescales or zeroes a value and adds
\* no input to it.

TLen(x) == Len(x[0])

AllUnits(x, l) == UNION {x[u][l] : u \in Units}

\* elementwise a + b (also a scaled sum)
TAdd(a, b) == [u \in Units |-> [l \in 1..TLen(a) |-> a[u][l] \cup b[u][l]]]

\* L.EmbedID(..., ignore_label=-1) as a table over the positions of a block
\* row: the row of an ignored id is zero.
TokenTable(kind, ids) ==
    [p \in 1..Len(ids) |->
        [u \in Units |-> IF ids[p] = -1 THEN {} ELSE {<<kind, p>>}]]

\* The position table has no ignored id.
PositionTable(kind, length) ==
    [p \in 1..length |-> [u \in Units |-> {<<kind, p>>}]]

Iota(length) == [l \in 1..length |-> l]

\* F.concat([pad, x], axis=2), pad being n zero timesteps
ConcatPad(n, x) == [u \in Units |-> [j \in 1..n |-> {}] \o x[u]]

\* The length of the output of a convolution of kernel w over lin timesteps
\* with p timesteps of implicit padding on each side.
ConvOutLen(lin, w, p) == lin + 2 * p - w + 1

\* ConvGLU.__init__: pad = width // 2 * (1 - nopad)
ConvPad(w, nopad) == (w \div 2) * (IF nopad THEN 0 ELSE 1)

\* ConvGLU.__call__: dropout, the convolution to 2 * n_units channels (every
\* output channel reads every input channel over the kernel's window), the
\* split and out * sigmoid(pregate).
ConvGLU(x, w, nopad, ptag) ==
    LET p == ConvPad(w, nopad)
        lin == TLen(x)
        at(j) == IF (j - p) \in 1..lin THEN AllUnits(x, j - p) ELSE {}
    IN  [u \in Units |-> [t \in 1..ConvOutLen(lin, w, p) |->
            UNION {at(j) : j \in t..(t + w - 1)} \cup {ptag}]]

\* seq_linear: the linear layer applied to each position
SeqLinear(x, ptag) ==
    [u \in Units |-> [t \in 1..TLen(x) |-> AllUnits(x, t) \cup {ptag}]]

\* ConvGLUDecoder.attend.  mask[t][s]; key[u][s]; value[u][s] is the row
\* broadcast over the target positions.  A masked score is -inf and its
\* softmax weight exactly 0; a row with no true entry is NaN and re-masked
\* to zeros; the other weights of a row are normalised over its true entries.
Attend(q, key, value, mask) ==
    LET enc_l == TLen(key)
        pre_a(t, s) == AllUnits(q, t) \cup AllUnits(key, s)
        live(t) == {s \in 1..enc_l : mask[t][s]}
        a(t, s) == IF mask[t][s] THEN UNION {pre_a(t, s2) : s2 \in live(t)}
                   ELSE {}
    IN  [u \in Units |-> [t \in 1..TLen(q) |->
            UNION {a(t, s) \cup value[u][s] : s \in live(t)}]]

\* A block row: real tokens followed by -1 padding.
PaddedRows(maxlen) ==
    {[l \in 1..n |-> IF l <= r THEN 1 ELSE -1] : n \in 1..maxlen, r \in 1..maxlen}
    \ {<<>>}

RealFirst(row) == row[1] # -1

InitForward ==
    /\ xp \in Backends
    /\ self_max_length \in 1..MaxModelLen
    /\ batch = 1 /\ x_length = 0 /\ max_length = 0
    /\ y_block = <<>> /\ eos_flags = <<>> /\ result = <<>> /\ i = 0
    /\ pc = "idle" /\ outs = <<>>
    /\ train = TRUE /\ params = <<>> /\ run = 1 /\ first_outs = <<>>
    /\ fpc = "embed"
    /\ n_layers \in 0..MaxLayers
    /\ width = DecWidth
    /\ standalone = FALSE
    /\ get_prediction \in BOOLEAN
    /\ x_blk \in {r \in PaddedRows(MaxXLen) : RealFirst(r)}
    /\ y_in \in {r \in PaddedRows(MaxYLen) : RealFirst(r)}
    /\ y_out = y_in      \* the targets are padded where y_in_block is
    /\ position_block = <<>> /\ ex_block = <<>> /\ ey_block = <<>>
    /\ z_block = <<>> /\ enc_layer = 0 /\ ze_block = <<>> /\ z_mask = <<>>
    /\ x_dec = <<>> /\ base_x = <<>> /\ dec_layer = 0
    /\ pad_len = 0 /\ conv_len = 0
    /\ preatt = <<>> /\ query = <<>> /\ c_att = <<>>
    /\ pred = <<>> /\ loss = <<>>
    /\ IdleAttend

fwFrame == UNCHANGED <<cfgVars, loopVars, detVars, atVars, fwInputs>>

\* ex_block = sentence_block_embed(self.embed_x, x_block), and ey_block
FwEmbed ==
    /\ fpc = "embed"
    /\ ex_block' = SentenceBlockEmbed(TokenTable("x", x_blk), Iota(Len(x_blk)))
    /\ ey_block' = SentenceBlockEmbed(TokenTable("y", y_in), Iota(Len(y_in)))
    /\ fpc' = "positions"
    /\ fwFrame
    /\ UNCHANGED <<position_block, fwEncVars, fwDecVars, fwOutVars>>

MaxLen == Max(Len(x_blk), Len(y_in))

\* position_block, its clamp, and the position embeddings added to the blocks
FwPositions ==
    /\ fpc = "positions"
    /\ ~PositionWriteRaises(xp, MaxLen, self_max_length)
    /\ position_block' = PositionBlock(MaxLen, self_max_length)
    /\ ex_block' = TAdd(ex_block,
          SentenceBlockEmbed(PositionTable("px", Len(x_blk)), Iota(Len(x_blk))))
    /\ ey_block' = TAdd(ey_block,
          SentenceBlockEmbed(PositionTable("py", Len(y_in)), Iota(Len(y_in))))
    /\ z_block' = ex_block'
    /\ fpc' = "encode"
    /\ fwFrame
    /\ UNCHANGED <<enc_layer, ze_block, z_mask, fwDecVars, fwOutVars>>

\* The clamp's assignment raises.
FwPositionsRaises ==
    /\ fpc = "positions"
    /\ PositionWriteRaises(xp, MaxLen, self_max_length)
    /\ fpc' = "error"
    /\ fwFrame
    /\ UNCHANGED <<fwEmbedVars, fwEncVars, fwDecVars, fwOutVars>>

\* ConvGLUEncoder.__call__: one turn of the loop over conv_names
EncoderLayer ==
    /\ fpc = "encode"
    /\ enc_layer < n_layers
    /\ z_block' = TAdd(z_block,
          ConvGLU(z_block, EncWidth, FALSE, <<"enc", enc_layer + 1>>))
    /\ enc_layer' = enc_layer + 1
    /\ fwFrame
    /\ UNCHANGED <<fpc, fwEmbedVars, ze_block, z_mask, fwDecVars, fwOutVars>>

\* ze_block and z_mask, and the call self.decoder(ey_block, ...)
FwValuesMask ==
    /\ fpc = "encode"
    /\ enc_layer = n_layers
    /\ ze_block' = TAdd(z_block, ex_block)
    /\ z_mask' = [t \in 1..Len(y_in) |->
                    [s \in 1..Len(x_blk) |-> x_blk[s] >= 0 /\ y_in[t] >= 0]]
    /\ x_dec' = ey_block
    /\ fpc' = "dec_enter"
    /\ fwFrame
    /\ UNCHANGED <<fwEmbedVars, z_block, enc_layer, base_x, dec_layer, pad_len,
                   conv_len, preatt, query, c_att, fwOutVars>>

\* ConvGLUDecoder.__call__ up to its loop: att_scale, pad, base_x = x
DecoderEnter ==
    /\ fpc = "dec_enter"
    /\ base_x' = x_dec
    /\ pad_len' = PadLen
    /\ fpc' = "dec_conv"
    /\ fwFrame
    /\ UNCHANGED <<fwEmbedVars, fwEncVars, x_dec, dec_layer, conv_len,
                   preatt, query, c_att, fwOutVars>>

\* ConvGLUDecoder.__init__: ConvGLU(n_units, width=(width // 2 + 1), nopad=True)
DecKernel(w) == w \div 2 + 1

\* The decoder's convolution raises: the padded input is shorter than the
\* kernel, or the output's length differs from x's so that x + conv raises.
DecConvRaises(lin, w) ==
    LET lout == ConvOutLen(lin + PadLen, DecKernel(w), 0)
    IN  lout < 1 \/ lout # lin

\* x = x + conv(F.concat([pad, x], axis=2)); x *= scale
DecoderConv ==
    /\ fpc = "dec_conv"
    /\ dec_layer < n_layers
    /\ ~DecConvRaises(TLen(x_dec), width)
    /\ LET cv == ConvGLU(ConcatPad(PadLen, x_dec), DecKernel(width), TRUE,
                         <<"dec", dec_layer + 1>>)
       IN  /\ conv_len' = TLen(cv)
           /\ x_dec' = TAdd(x_dec, cv)
    /\ fpc' = "dec_att"
    /\ fwFrame
    /\ UNCHANGED <<fwEmbedVars, fwEncVars, base_x, dec_layer, pad_len,
                   preatt, query, c_att, fwOutVars>>

DecoderConvRaises ==
    /\ fpc = "dec_conv"
    /\ dec_layer < n_layers
    /\ DecConvRaises(TLen(x_dec), width)
    /\ fpc' = "error"
    /\ fwFrame
    /\ UNCHANGED <<fwEmbedVars, fwEncVars, fwDecVars, fwOutVars>>

\* preatt = seq_linear(...); query = base_x + preatt;
\* query = F.squeeze(x, axis=3); c = self.attend(...); c *= att_scale; x = x + c
DecoderAttend ==
    /\ fpc = "dec_att"
    /\ preatt' = SeqLinear(x_dec, <<"preatt", dec_layer + 1>>)
    /\ query' = x_dec
    /\ c_att' = Attend(query', z_block, ze_block, z_mask)
    /\ x_dec' = TAdd(x_dec, c_att')
    /\ dec_layer' = dec_layer + 1
    /\ fpc' = "dec_conv"
    /\ fwFrame
    /\ UNCHANGED <<fwEmbedVars, fwEncVars, base_x, pad_len, conv_len, fwOutVars>>

\* return x, to Seq2seq.__call__ or to the direct caller
DecoderReturn ==
    /\ fpc = "dec_conv"
    /\ dec_layer = n_layers
    /\ fpc' = IF standalone THEN "done" ELSE "project"
    /\ fwFrame
    /\ UNCHANGED <<fwEmbedVars, fwEncVars, fwDecVars, fwOutVars>>

\* concat_pred_block = self.W(F.dropout(concat_h_block)), a row per position
FwProject ==
    /\ fpc = "project"
    /\ pred' = [t \in 1..TLen(x_dec) |-> AllUnits(x_dec, t) \cup {<<"W", 0>>}]
    /\ fpc' = IF get_prediction THEN "done" ELSE "loss"
    /\ fwFrame
    /\ UNCHANGED <<fwEmbedVars, fwEncVars, fwDecVars, loss>>

\* F.softmax_cross_entropy: a position whose target is -1 has no term
FwLoss ==
    /\ fpc = "loss"
    /\ loss' = [t \in 1..Len(y_out) |-> IF y_out[t] = -1 THEN {} ELSE pred[t]]
    /\ fpc' = "done"
    /\ fwFrame
    /\ UNCHANGED <<fwEmbedVars, fwEncVars, fwDecVars, pred>>

NextForward ==
    \/ FwEmbed \/ FwPositions \/ FwPositionsRaises
    \/ EncoderLayer \/ FwValuesMask
    \/ DecoderEnter \/ DecoderConv \/ DecoderAttend \/ DecoderReturn
    \/ FwProject \/ FwLoss

SpecForward == InitForward /\ [][NextForward]_vars

\* ConvGLUDecoder constructed and called directly, with any width.
InitDecoder ==
    /\ xp \in Backends
    /\ self_max_length = MaxModelLen
    /\ batch = 1 /\ x_length = 0 /\ max_length = 0
    /\ y_block = <<>> /\ eos_flags = <<>> /\ result = <<>> /\ i = 0
    /\ pc = "idle" /\ outs = <<>>
    /\ train = TRUE /\ params = <<>> /\ run = 1 /\ first_outs = <<>>
    /\ fpc = "dec_enter"
    /\ n_layers \in 0..MaxLayers
    /\ width \in 1..MaxWidth
    /\ standalone = TRUE
    /\ get_prediction = TRUE
    /\ x_blk = <<>> /\ y_in = <<>> /\ y_out = <<>>
    /\ position_block = <<>> /\ ex_block = <<>> /\ ey_block = <<>>
    /\ \E dec_l \in 1..MaxYLen, enc_l \in 1..MaxXLen :
          /\ x_dec = [u \in Units |-> [t \in 1..dec_l |-> {<<"y", t>>}]]
          /\ z_block = [u \in Units |-> [s \in 1..enc_l |-> {<<"x", s>>}]]
          /\ z_mask \in [1..dec_l -> [1..enc_l -> BOOLEAN]]
    /\ ze_block = z_block
    /\ enc_layer = 0
    /\ base_x = <<>> /\ dec_layer = 0
    /\ pad_len = 0 /\ conv_len = 0
    /\ preatt = <<>> /\ query = <<>> /\ c_att = <<>>
    /\ pred = <<>> /\ loss = <<>>
    /\ IdleAttend

NextDecoder ==
    \/ DecoderEnter \/ DecoderConv \/ DecoderConvRaises
    \/ DecoderAttend \/ DecoderReturn

SpecDecoder == InitDecoder /\ [][NextDecoder]_vars

\* ------------------------------------------------- claims on the forward path

\* C5: a block longer than max_length raises no error, and every position
\* index p >= max_length is max_length - 1, every other one is p, so that all
\* of them lie in [0, max_length).
C5_PositionsClamped ==
    /\ fpc # "error"
    /\ fpc \notin {"embed", "positions", "error"} =>
          /\ DOMAIN position_block = 0..(MaxLen - 1)
          /\ \A p \in DOMAIN position_block :
                /\ position_block[p] =
                      (IF p >= self_max_length THEN self_max_length - 1 ELSE p)
                /\ position_block[p] \in 0..(self_max_length - 1)

\* What the clamp gives where the assignment is possible (cupy).
C5_ClampedUnlessRaised ==
    fpc \notin {"embed", "positions", "error"} =>
        \A p \in DOMAIN position_block :
            /\ position_block[p] =
                  (IF p >= self_max_length THEN self_max_length - 1 ELSE p)
            /\ position_block[p] \in 0..(self_max_length - 1)

\* An input of a padding position: its token or its position embedding.
PaddingInput(tag) ==
    \/ tag[1] \in {"x", "px"} /\ x_blk[tag[2]] = -1
    \/ tag[1] \in {"y", "py"} /\ y_in[tag[2]] = -1

\* C7: no value of a padding position flows into the attention context or the
\* loss term of a real target position.
C7_PaddingNeverContributes ==
    \A t \in 1..Len(y_in) :
        y_in[t] # -1 =>
            /\ c_att # <<>> =>
                  \A u \in Units : \A tag \in c_att[u][t] : ~PaddingInput(tag)
            /\ loss # <<>> => \A tag \in loss[t] : ~PaddingInput(tag)

\* C8: the decoder's output and the logits at target position t are computed
\* from no target token at a position after t.
C8_Causal ==
    fpc \in {"project", "loss", "done"} =>
        \A t \in 1..TLen(x_dec) :
            /\ \A tag \in AllUnits(x_dec, t) : tag[1] = "y" => tag[2] <= t
            /\ pred # <<>> => \A tag \in pred[t] : tag[1] = "y" => tag[2] <= t

\* The decoder taken alone is causal in its own input x (SpecDecoder feeds it
\* <<"y", t>> at position t).
C8_DecoderCausalInItsInput ==
    \A u \in Units : \A t \in 1..TLen(x_dec) :
        \A tag \in x_dec[u][t] : tag[1] = "y" => tag[2] <= t

\* C10: in every layer the query given to attend is base_x + preatt, preatt
\* being that layer's projection of the post-convolution state.
C10_QueryIsProjectionPlusBase ==
    query # <<>> => query = TAdd(base_x, preatt)

\* C9: pad is width - 1 timesteps, each convolution's output is as long as
\* the unpadded input, nothing raises and the decoder's output has the shape
\* of its input, for every width and layer count.
C9_ShapePreserved ==
    /\ fpc # "error"
    /\ fpc = "dec_att" => pad_len = width - 1 /\ conv_len = TLen(base_x)
    /\ fpc = "done" => TLen(x_dec) = TLen(base_x)

\* With the width Seq2seq passes (5, and 4, whose kernel is also 3) the
\* shapes are preserved.
C9_ShapePreservedForWidth5 ==
    width \in {4, 5} =>
        /\ fpc # "error"
        /\ fpc = "dec_att" => conv_len = TLen(base_x)
        /\ fpc = "done" => TLen(x_dec) = TLen(base_x)


\* ---------------------------------------------------------------------------
\* ConvGLUDecoder.attend on numbers, one batch element.  A float is a record:
\* a rational n / d, minus infinity, or NaN.  query, key and value hold small
\* integers (finite floats); exp is taken to the base 2, which keeps every
\* weight a rational.

Num(n, d) == [k |-> "num", n |-> n, d |-> d]
NInf == [k |-> "ninf", n |-> 0, d |-> 1]
NaN == [k |-> "nan", n |-> 0, d |-> 1]

RECURSIVE Pow2(_)
Pow2(e) == IF e <= 0 THEN 1 ELSE 2 * Pow2(e - 1)

RECURSIVE SumSeq(_, _)
SumSeq(f, n) == IF n < 1 THEN 0 ELSE f[n] + SumSeq(f, n - 1)

SetMax(S) == CHOOSE m \in S : \A n \in S : m >= n

\* pre_a = F.batch_matmul(query, key, transa=True): pre_a[t][s]
BatchMatmul(q, key) ==
    [t \in 1..TLen(q) |-> [s \in 1..TLen(key) |->
        Num(SumTo([u \in Units |-> q[u][t] * key[u][s]], NUnits - 1), 1)]]

\* pre_a = F.where(mask, pre_a, minfs)
WhereMask(mask, pre_a) ==
    [t \in DOMAIN pre_a |-> [s \in DOMAIN pre_a[t] |->
        IF mask[t][s] THEN pre_a[t][s] ELSE NInf]]

\* F.softmax over one row: x - max(x), exp, divide by the sum.  With every
\* entry -inf the maximum is -inf and -inf - (-inf) is NaN in every place.
\* Otherwise exp(-inf - m) is 0 and exp(x - m) is 2^(x - lo) / 2^(m - lo),
\* whose common factor cancels in the division.
SoftmaxRow(row) ==
    LET finite == {s \in DOMAIN row : row[s].k = "num"}
    IN  IF finite = {} THEN [s \in DOMAIN row |-> NaN]
        ELSE LET lo == -SetMax({-row[s].n : s \in finite})
                 e == [s \in DOMAIN row |->
                         IF s \in finite THEN Pow2(row[s].n - lo) ELSE 0]
                 total == SumSeq(e, Len(row))
             IN  [s \in DOMAIN row |-> Num(e[s], total)]

Softmax(pre_a) == [t \in DOMAIN pre_a |-> SoftmaxRow(pre_a[t])]

\* The variant of ReMask that leaves the softmax output as it is.
ReMaskNone(a) == a

\* a = F.where(self.xp.isnan(a.data), zeros, a)
ReMask(a) ==
    [t \in DOMAIN a |-> [s \in DOMAIN a[t] |->
        IF a[t][s].k = "nan" THEN Num(0, 1) ELSE a[t][s]]]

\* c = F.sum(broadcast_to(a[:, None], value.shape) * value, axis=3): a NaN
\* weight makes the sum NaN; the weights of a row share their denominator.
Context(a, value) ==
    [u \in Units |-> [t \in DOMAIN a |->
        IF \E s \in DOMAIN a[t] : a[t][s].k = "nan" THEN NaN
        ELSE Num(SumSeq([s \in DOMAIN a[t] |-> a[t][s].n * value[u][t][s]],
                        Len(a[t])),
                 a[t][1].d)]]

AttendWeights(q, key, mask) == ReMask(Softmax(WhereMask(mask, BatchMatmul(q, key))))

InitAttend ==
    /\ xp \in Backends
    /\ self_max_length = MaxModelLen
    /\ batch = 1 /\ x_length = 0 /\ max_length = 0
    /\ y_block = <<>> /\ eos_flags = <<>> /\ result = <<>> /\ i = 0
    /\ pc = "idle" /\ outs = <<>>
    /\ train = TRUE /\ params = <<>> /\ run = 1 /\ first_outs = <<>>
    /\ IdleForward
    /\ at_pc = "call"
    /\ \E dec_l \in 1..MaxYLen, enc_l \in 1..MaxXLen :
          /\ at_mask \in [1..dec_l -> [1..enc_l -> BOOLEAN]]
          /\ \E qa, qb \in 0..1 :
                at_query = [u \in Units |-> [t \in 1..dec_l |->
                               (qa * u + qb * t + 1) % 2]]
          /\ \E ka, kb \in 0..1 :
                at_key = [u \in Units |-> [s \in 1..enc_l |->
                             (ka + u + kb * s) % 2]]
          /\ \E va, vb \in 0..1 :
                at_value = [u \in Units |-> [t \in 1..dec_l |->
                               [s \in 1..enc_l |->
                                   ((u + va * t + vb * s) % 3) - 1 + va * vb]]]
    /\ at_a = <<>>
    /\ at_c = <<>>

AttendCall ==
    /\ at_pc = "call"
    /\ at_a' = AttendWeights(at_query, at_key, at_mask)
    /\ at_c' = Context(at_a', at_value)
    /\ at_pc' = "done"
    /\ UNCHANGED <<cfgVars, loopVars, detVars, fwVars,
                   at_query, at_key, at_value, at_mask>>

NextAttend == AttendCall

SpecAttend == InitAttend /\ [][NextAttend]_vars

\* ----------------------------------------------------------- claim on attend

MaskedRow(t) == \A s \in DOMAIN at_mask[t] : ~at_mask[t][s]

\* The score of (t, s) before masking.
Score(t, s) == SumTo([u \in Units |-> at_query[u][t] * at_key[u][s]], NUnits - 1)

IsZero(x) == x.k = "num" /\ x.n = 0

\* C6: a target position whose mask row is all false has all-zero weights and
\* a context that is exactly zero, not NaN; any other row keeps its softmax
\* weights (positive, summing to one, in the ratio of the exponentials of the
\* scores) with weight zero at every masked source position.
C6_MaskedRowGivesZeroContext ==
    at_pc = "done" =>
      \A t \in DOMAIN at_mask :
        IF MaskedRow(t)
        THEN /\ \A s \in DOMAIN at_a[t] : IsZero(at_a[t][s])
             /\ \A u \in Units : IsZero(at_c[u][t])
        ELSE /\ \A s \in DOMAIN at_a[t] :
                   /\ at_a[t][s].k = "num"
                   /\ at_a[t][s].d > 0
                   /\ at_mask[t][s] => at_a[t][s].n > 0
                   /\ ~at_mask[t][s] => at_a[t][s].n = 0
             /\ SumSeq([s \in DOMAIN at_a[t] |-> at_a[t][s].n], Len(at_a[t]))
                   = at_a[t][1].d
             /\ \A s1, s2 \in DOMAIN at_a[t] :
                   (at_mask[t][s1] /\ at_mask[t][s2]) =>
                       at_a[t][s1].n * Pow2(Score(t, s2))
                           = at_a[t][s2].n * Pow2(Score(t, s1))
             /\ \A u \in Units : at_c[u][t].k = "num"

\* C6's case: a wholly masked row over non-zero values beside a row with one
\* masked and one unmasked source position.
C6_Witness ==
    /\ at_pc = "done"
    /\ \E t \in DOMAIN at_mask :
          /\ MaskedRow(t)
          /\ \E u \in Units, s \in DOMAIN at_mask[t] : at_value[u][t][s] # 0
          /\ \A u \in Units : IsZero(at_c[u][t])
    /\ \E t \in DOMAIN at_mask :
          \E s1, s2 \in DOMAIN at_mask[t] : at_mask[t][s1] /\ ~at_mask[t][s2]

=============================================================================
